---------------------------- MODULE Spec2Model ----------------------------
(***************************************************************************)
(* Verification model of where-it-went: the streaming dispatcher           *)
(* (socket_setup.py), the lock-based single-flight cache                   *)
(* (redis_setup.py, redis_caching.py) and the hierarchical search engine   *)
(* (search_places/search_engine.py, search_places/s2helpers.py).           *)
(*                                                                         *)
(* Four specifications share the module:                                   *)
(*   SpecSocket   sessions, requests, worker greenlets, emitted messages   *)
(*   SpecLock     concurrent fetch_or_cache_region calls over one key      *)
(*   SpecSearch   sequential get_places_in_region calls over a cell tree   *)
(*   SpecHelpers  the functions without state, applied to chosen inputs    *)
(* Each specification leaves the variables of the others untouched.        *)
(***************************************************************************)
EXTENDS Integers, Sequences, FiniteSets, TLC

VARIABLES
  \* ---- streaming dispatcher (socket_setup.py) ----
  active_requests,   \* dict: session id -> id of its latest request
  active_greenlets,  \* dict: session id -> set of registered worker handles
  connected,         \* environment: the sessions whose connection is open
  opened,            \* environment: the sessions that ever connected
  hpc,               \* position of the on_location_update handler of (s, r)
  greenlet,          \* every worker spawned so far: handle -> its state
  emitted,           \* per session, the messages sent to the client, in order
  \* ---- single-flight cache (redis_setup.py, redis_caching.py) ----
  lock,              \* value stored under "<key>:lock", absent: NoToken
  cache,             \* payload stored under the key, absent: NoPayload
  cpc,               \* position of each fetch_or_cache_region call
  waited,            \* per call: rounds of the wait loop it is in
  token,             \* per call: the token acquire_lock returned, or NoToken
  result,            \* per call: the Result it returns
  calls,             \* per call: invocations of the upstream caller
  writes,            \* per call: set_json calls made
  releases,          \* per call: release_lock calls, as <<key, token>>
  removed,           \* lock deletions by release_lock: <<token given, value removed>>
  trail,             \* per call: what the call went through
  expiry,            \* seconds to live given to the cache and the lock entry
  \* ---- search engine (search_engine.py, s2helpers.py) ----
  redis,             \* the place cache: cell token -> stored bytes
  upstream,          \* environment: the places the upstream API knows
  failing,           \* environment: tokens of the cells whose fetch fails
  raising,           \* environment: tokens of the cells whose request raises
  tampered,          \* environment: an entry has expired or been corrupted
  log,               \* the get_places_in_region calls made, in order
  \* ---- functions without state ----
  probe              \* the last application: function, input, output

sockVars == <<active_requests, active_greenlets, connected, opened, hpc,
              greenlet, emitted>>

lockVars == <<lock, cache, expiry, cpc, waited, token, result, calls, writes, releases,
              removed, trail>>

searchVars == <<redis, upstream, failing, raising, tampered, log>>

helperVars == <<probe>>

vars == <<sockVars, lockVars, searchVars, helperVars>>

-----------------------------------------------------------------------------
(* Bounds of the dispatcher model *)

\* leaf batches handed to workers in one run, over all sessions and
\* requests; a request turned away for its payload counts as one
MaxBatches == 2

Sessions == {"s1","s2"}

\* every request hands out at least one batch
RequestIds == 1..MaxBatches

\* sizes of the covering set of one search (one worker per covering cell)
CoverSizes == {1, 2}

\* leaf cells below one covering cell (an initial segment of the naturals)
LeafCounts == {1, 2}

-----------------------------------------------------------------------------
(* Python dict helpers *)

\* d.get(k, default)
DictGet(d, k, default) == IF k \in DOMAIN d THEN d[k] ELSE default

\* d[k] = v
DictSet(d, k, v) == (k :> v) @@ d

\* del d[k]
DictDel(d, k) == [x \in (DOMAIN d) \ {k} |-> d[x]]

\* the value of dict.get(k) when the key is absent
None == 0

EmptyDict == [x \in {} |-> None]

-----------------------------------------------------------------------------
(* Streaming dispatcher: socket_setup.py *)

\* worker handles are <<session, request id, index>>
WorkersOf(s, r) == {w \in DOMAIN greenlet : w[1] = s /\ w[2] = r}

Dead(w) == greenlet[w].st \in {"done", "killed"}

\* mutant of should_cancel: a token that never reports cancellation
should_cancel_never(s, r) == FALSE

\* should_cancel(): self.active_requests.get(client_id) != request_id
should_cancel(s, r) == DictGet(active_requests, s, None) # r

\* greenlet.kill() on every handle of a set: a finished greenlet stays finished
KillAll(g, ws) ==
  [w \in DOMAIN g |->
     IF w \in ws /\ g[w].st \notin {"done", "killed"}
     THEN [g[w] EXCEPT !.st = "killed"]
     ELSE g[w]]

\* the handles registered for a session (empty when it has no entry)
Registered(s) == DictGet(active_greenlets, s, {})

Event(name, r) == [name |-> name, rid |-> r]

\* self.emit / emit to the client of session s
Emit(s, name, r) == [emitted EXCEPT ![s] = Append(@, Event(name, r))]

\* on_connect: a new session id; nothing is recorded for it
on_connect(s) ==
  /\ s \notin opened
  /\ opened' = opened \cup {s}
  /\ connected' = connected \cup {s}
  /\ UNCHANGED <<active_requests, active_greenlets, hpc, greenlet, emitted>>
  /\ UNCHANGED <<lockVars, searchVars, helperVars>>

\* mutant of on_disconnect: both dicts are emptied, not the session's entries
on_disconnect_clears_all(s) ==
  /\ s \in connected
  /\ connected' = connected \ {s}
  /\ greenlet' = KillAll(greenlet,
                         UNION {active_greenlets[x] : x \in DOMAIN active_greenlets})
  /\ active_greenlets' = EmptyDict
  /\ active_requests' = EmptyDict
  /\ UNCHANGED <<opened, hpc, emitted>>
  /\ UNCHANGED <<lockVars, searchVars, helperVars>>

\* on_disconnect: kill the registered greenlets, drop both entries
on_disconnect(s) ==
  /\ s \in connected
  /\ connected' = connected \ {s}
  /\ greenlet' = KillAll(greenlet, Registered(s))
  /\ active_greenlets' = DictDel(active_greenlets, s)
  /\ active_requests' = DictDel(active_requests, s)
  /\ UNCHANGED <<opened, hpc, emitted>>
  /\ UNCHANGED <<lockVars, searchVars, helperVars>>

\* The search engine called at line 120 spawns one worker per covering cell
\* into greenlets_container and then waits for them.
SpawnWorkers(g, s, r, n, leaves) ==
  [w \in (DOMAIN g) \cup {<<s, r, i>> : i \in 1..n} |->
     IF w \in DOMAIN g THEN g[w] ELSE [st |-> "spawned", left |-> leaves, total |-> leaves]]

\* requests turned away for their payload so far
Rejected ==
  Cardinality({sr \in Sessions \X RequestIds : hpc[sr[1]][sr[2]] = "invalid"})

\* leaf batches handed out so far
Assigned ==
  Cardinality({wk \in (DOMAIN greenlet) \X LeafCounts :
                 wk[2] <= greenlet[wk[1]].total})

\* mutant of on_location_update: the id is read with a default of 1 and not
\* increased
on_location_update_same_id(s, n, leaves) ==
  LET request_id == DictGet(active_requests, s, 1) IN
  /\ s \in connected
  /\ Assigned + Rejected + n * leaves <= MaxBatches
  /\ active_greenlets' = DictDel(active_greenlets, s)
  /\ active_requests' = DictSet(active_requests, s, request_id)
  /\ greenlet' = SpawnWorkers(KillAll(greenlet, Registered(s)),
                              s, request_id, n, leaves)
  /\ hpc' = [hpc EXCEPT ![s][request_id] = "searching"]
  /\ UNCHANGED <<connected, opened, emitted>>
  /\ UNCHANGED <<lockVars, searchVars, helperVars>>

\* on_location_update, from its entry to the first suspension inside
\* get_places_in_region: kill the registered greenlets, take the next
\* request id, enter the search.
on_location_update(s, n, leaves) ==
  LET request_id == DictGet(active_requests, s, 0) + 1 IN
  /\ s \in connected
  /\ Assigned + Rejected + n * leaves <= MaxBatches
  /\ active_greenlets' = DictDel(active_greenlets, s)
  /\ active_requests' = DictSet(active_requests, s, request_id)
  /\ greenlet' = SpawnWorkers(KillAll(greenlet, Registered(s)),
                              s, request_id, n, leaves)
  /\ hpc' = [hpc EXCEPT ![s][request_id] = "searching"]
  /\ UNCHANGED <<connected, opened, emitted>>
  /\ UNCHANGED <<lockVars, searchVars, helperVars>>

\* what a client may send that is no mapping of numbers: a payload without
\* a get method (a list, a string, null), or a mapping with a field that is
\* not a number
InvalidPayloads == {"not_a_mapping", "field_not_a_number"}

\* on_location_update with an invalid payload, from its entry to its end.
\* The greenlets are killed and the request id is taken first (lines 70-78).
\* data.get of line 88 is outside the try: on a payload that is no mapping
\* the AttributeError leaves the handler and nothing is emitted. A field
\* that is not a number passes SearchRegion (a dataclass, nothing is
\* validated) and raises a TypeError once the search computes with it,
\* inside the try, which the except clause of lines 136-138 emits.
on_location_update_invalid(s, payload) ==
  LET request_id == DictGet(active_requests, s, 0) + 1 IN
  /\ s \in connected
  /\ Assigned + Rejected < MaxBatches
  /\ active_greenlets' = DictDel(active_greenlets, s)
  /\ active_requests' = DictSet(active_requests, s, request_id)
  /\ greenlet' = KillAll(greenlet, Registered(s))
  /\ emitted' = IF payload = "field_not_a_number"
                THEN Emit(s, "error", request_id)
                ELSE emitted
  /\ hpc' = [hpc EXCEPT ![s][request_id] = "invalid"]
  /\ UNCHANGED <<connected, opened>>
  /\ UNCHANGED <<lockVars, searchVars, helperVars>>

\* mutant of NextLeaf: the next fetch starts without a look at the token
NextLeaf_unchecked(s, r, w) ==
  IF greenlet[w].left = 0
  THEN [greenlet EXCEPT ![w].st = "done"]
  ELSE [greenlet EXCEPT ![w].st = "fetching", ![w].left = @ - 1]

\* A worker consults the cancellation token before each upstream fetch.
NextLeaf(s, r, w) ==
  IF should_cancel(s, r) \/ greenlet[w].left = 0
  THEN [greenlet EXCEPT ![w].st = "done"]
  ELSE [greenlet EXCEPT ![w].st = "fetching", ![w].left = @ - 1]

\* A spawned worker is scheduled for the first time.
WorkerStart(w) ==
  /\ w \in DOMAIN greenlet
  /\ greenlet[w].st = "spawned"
  /\ greenlet' = NextLeaf(w[1], w[2], w)
  /\ UNCHANGED <<active_requests, active_greenlets, connected, opened, hpc,
                 emitted>>
  /\ UNCHANGED <<lockVars, searchVars, helperVars>>

\* mutant of stream_update_emits: the batch is emitted whatever happened
stream_update_emits_always(s, r) == TRUE

\* stream_update(partial_places): nothing when the request is cancelled,
\* otherwise emit places_update and sleep 10 ms.
stream_update_emits(s, r) == ~should_cancel(s, r)

\* mutant of FetchReturn: the batch is gathered but not handed to the sink
FetchReturn_unsunk(w) ==
  /\ w \in DOMAIN greenlet
  /\ greenlet[w].st = "fetching"
  /\ greenlet' = NextLeaf(w[1], w[2], w)
  /\ UNCHANGED <<active_requests, active_greenlets, connected, opened, hpc,
                 emitted>>
  /\ UNCHANGED <<lockVars, searchVars, helperVars>>

\* The upstream fetch of a worker returns and the batch goes to the sink.
FetchReturn(w) ==
  LET s == w[1]
      r == w[2] IN
  /\ w \in DOMAIN greenlet
  /\ greenlet[w].st = "fetching"
  /\ IF stream_update_emits(s, r)
     THEN /\ emitted' = Emit(s, "places_update", r)
          /\ greenlet' = [greenlet EXCEPT ![w].st = "sleeping"]
     ELSE /\ emitted' = emitted
          /\ greenlet' = NextLeaf(s, r, w)
  /\ UNCHANGED <<active_requests, active_greenlets, connected, opened, hpc>>
  /\ UNCHANGED <<lockVars, searchVars, helperVars>>

\* eventlet.sleep(0.01) of stream_update ends.
Wake(w) ==
  /\ w \in DOMAIN greenlet
  /\ greenlet[w].st = "sleeping"
  /\ greenlet' = NextLeaf(w[1], w[2], w)
  /\ UNCHANGED <<active_requests, active_greenlets, connected, opened, hpc,
                 emitted>>
  /\ UNCHANGED <<lockVars, searchVars, helperVars>>

\* mutant of SearchJoined: the search returns without waiting for its workers
SearchJoined_nowait(s, r) == TRUE

\* get_places_in_region returns once every worker it spawned has ended.
SearchJoined(s, r) == \A w \in WorkersOf(s, r) : Dead(w)

\* mutant of complete_emits: completion is announced whatever happened
complete_emits_always(s, r) == TRUE

\* places_complete is emitted only for the still active request
complete_emits(s, r) == ~should_cancel(s, r)

\* the container of a request is stored when it is not empty
StoreGreenlets(s, r) ==
  IF WorkersOf(s, r) # {}
  THEN DictSet(active_greenlets, s, WorkersOf(s, r))
  ELSE active_greenlets

\* on_location_update after get_places_in_region returned (lines 129-135)
SearchReturn(s, r) ==
  /\ hpc[s][r] = "searching"
  /\ SearchJoined(s, r)
  /\ active_greenlets' = StoreGreenlets(s, r)
  /\ emitted' = IF complete_emits(s, r)
                THEN Emit(s, "places_complete", r)
                ELSE emitted
  /\ hpc' = [hpc EXCEPT ![s][r] = "returned"]
  /\ UNCHANGED <<active_requests, connected, opened, greenlet>>
  /\ UNCHANGED <<lockVars, searchVars, helperVars>>

\* mutant of error_emits: the failure is reported whatever happened
error_emits_always(s, r) == TRUE

\* error is emitted only for the still active request
error_emits(s, r) == ~should_cancel(s, r)

\* on_location_update when get_places_in_region raises (lines 136-138)
SearchRaise(s, r) ==
  /\ hpc[s][r] = "searching"
  /\ emitted' = IF error_emits(s, r) THEN Emit(s, "error", r) ELSE emitted
  /\ hpc' = [hpc EXCEPT ![s][r] = "raised"]
  /\ UNCHANGED <<active_requests, active_greenlets, connected, opened,
                 greenlet>>
  /\ UNCHANGED <<lockVars, searchVars, helperVars>>

InitSocket ==
  /\ active_requests = EmptyDict
  /\ active_greenlets = EmptyDict
  /\ connected = {}
  /\ opened = {}
  /\ hpc = [s \in Sessions |-> [r \in RequestIds |-> "idle"]]
  /\ greenlet = EmptyDict
  /\ emitted = [s \in Sessions |-> <<>>]

NextSocket ==
  \/ \E s \in Sessions : on_connect(s)
  \/ \E s \in Sessions : on_disconnect(s)
  \/ \E s \in Sessions, n \in CoverSizes, l \in LeafCounts :
       on_location_update(s, n, l)
  \/ \E s \in Sessions, p \in InvalidPayloads : on_location_update_invalid(s, p)
  \/ \E w \in DOMAIN greenlet : WorkerStart(w)
  \/ \E w \in DOMAIN greenlet : FetchReturn(w)
  \/ \E w \in DOMAIN greenlet : Wake(w)
  \/ \E s \in Sessions, r \in RequestIds : SearchReturn(s, r)
  \/ \E s \in Sessions, r \in RequestIds : SearchRaise(s, r)

-----------------------------------------------------------------------------
(* Single-flight cache: redis_setup.py and redis_caching.py.               *)
(* Several fetch_or_cache_region calls for the same region run             *)
(* concurrently; every Redis command is atomic and the calls interleave    *)
(* between commands. The region's key is a cell at MAX_RECURSION_LEVEL or  *)
(* finer (radius <= 76 m), where fetch_and_merge_child_cells fetches the   *)
(* cell directly.                                                          *)

\* concurrent fetch_or_cache_region calls
NClients == 2
\* rounds of a wait loop (wait_timeout / poll_interval in the code)
WaitRounds == 2

Clients == 1..NClients

\* the lock key is absent; a call holds no token
NoToken == 0

\* the cache key is absent (get returns None)
NoPayload == [by |-> 0, places |-> <<>>]

\* the cache key of the region (build_region_key_s2)
cache_key == "K"

\* what the upstream caller returns: one place inside the radius, one outside
UpstreamPlaces == <<"near", "far">>

\* the payload the caller returns to call c
CallerPayload(c) == [by |-> c, places |-> UpstreamPlaces]

\* mutant of filter_payload_by_radius: every place is kept
filter_payload_by_radius_keep_all(payload) == payload

\* filter_payload_by_radius: keep the places within the radius
filter_payload_by_radius(payload) ==
  [payload EXCEPT !.places = SelectSeq(@, LAMBDA pl : pl = "near")]

Ok(v) == [ok |-> TRUE, value |-> v, msg |-> ""]
Err(m) == [ok |-> FALSE, value |-> NoPayload, msg |-> m]

\* a call that has not decided its Result yet
NoResult == Err("pending")

\* uuid.uuid4().hex of acquire_lock: one fresh token per call
NewToken(c) == c

Mark(c, what) == [trail EXCEPT ![c] = @ \cup {what}]

\* cache_ttl and lock_ttl of fetch_or_cache_region, left at their defaults
\* DEFAULT_CACHE_TTL and LOCK_TTL by its caller, in seconds
cache_ttl == 300
lock_ttl == 10

\* neither entry exists
NoExpiry == [cache |-> 0, lock |-> 0]

\* fetch_or_cache_region is called; get_json(cache_key) of lines 228-238: a
\* hit returns the filtered payload, a miss or a Redis error goes on to
\* acquire_lock
FocFirstGet(c, redis_error) ==
  /\ cpc[c] = "idle"
  /\ IF cache # NoPayload /\ ~redis_error
     THEN /\ result' = [result EXCEPT ![c] = Ok(filter_payload_by_radius(cache))]
          /\ cpc' = [cpc EXCEPT ![c] = "done"]
          /\ trail' = Mark(c, "first_hit")
     ELSE /\ result' = result
          /\ cpc' = [cpc EXCEPT ![c] = "acquire"]
          /\ trail' = trail
  /\ UNCHANGED <<lock, cache, waited, token, calls, writes, releases, removed>>
  /\ UNCHANGED expiry
  /\ UNCHANGED <<sockVars, searchVars, helperVars>>

\* one round of acquire_lock's loop: SET lock_key token NX EX ttl
acquire_lock_round(c, redis_error) ==
  /\ cpc[c] = "acquire"
  /\ IF redis_error
     THEN \* except Exception: Err -> polling
          /\ cpc' = [cpc EXCEPT ![c] = "poll"]
          /\ waited' = [waited EXCEPT ![c] = 0]
          /\ trail' = trail
          /\ UNCHANGED <<lock, token>>
     ELSE IF lock = NoToken
     THEN /\ lock' = NewToken(c)
          /\ token' = [token EXCEPT ![c] = NewToken(c)]
          /\ cpc' = [cpc EXCEPT ![c] = "caller"]
          /\ waited' = [waited EXCEPT ![c] = 0]
          /\ trail' = IF cache # NoPayload THEN Mark(c, "locked_populated")
                                           ELSE trail
     ELSE \* the key is held: sleep poll_interval, then try again
          /\ UNCHANGED <<lock, token>>
          /\ IF waited[c] + 1 < WaitRounds
             THEN /\ waited' = [waited EXCEPT ![c] = @ + 1]
                  /\ cpc' = cpc
                  /\ trail' = Mark(c, "contended")
             ELSE \* Err("Failed to acquire lock ... within 3.0s")
                  /\ waited' = [waited EXCEPT ![c] = 0]
                  /\ cpc' = [cpc EXCEPT ![c] = "poll"]
                  /\ trail' = [trail EXCEPT
                                 ![c] = @ \cup {"contended", "lock_timeout"}]
  /\ UNCHANGED <<cache, result, calls, writes, releases, removed>>
  /\ expiry' = IF ~redis_error /\ lock = NoToken
                THEN [expiry EXCEPT !.lock = lock_ttl]
                ELSE expiry
  /\ UNCHANGED <<sockVars, searchVars, helperVars>>

\* mutant of AfterHolder: the lock is released on the success path only
AfterHolder_no_finally(outcome) == IF outcome = "ok" THEN "release" ELSE "done"

\* where the holder goes once its outcome is decided: the finally clause of
\* lines 269-271 runs on every path
AfterHolder(outcome) == "release"

\* an exception that leaves fetch_or_cache_region instead of a Result
Raised == Err("raised")

\* mutant of HolderExcept: the exception propagates to whoever called
HolderExcept_reraise == Raised

\* the except clause of lines 265-268: the exception becomes an Err
HolderExcept == Err("Failed to fetch data")

\* fetch_and_merge_child_cells, leaf branch: payload = caller(...) (line 138);
\* an exception reaches the except clause of lines 265-268
HolderCaller(c, raises) ==
  /\ cpc[c] = "caller"
  /\ calls' = [calls EXCEPT ![c] = @ + 1]
  /\ IF raises
     THEN /\ result' = [result EXCEPT ![c] = HolderExcept]
          /\ cpc' = [cpc EXCEPT ![c] = AfterHolder("fetch_failed")]
     ELSE /\ result' = result
          /\ cpc' = [cpc EXCEPT ![c] = "leaf_set"]
  /\ UNCHANGED <<lock, cache, waited, token, writes, releases, removed, trail>>
  /\ UNCHANGED expiry
  /\ UNCHANGED <<sockVars, searchVars, helperVars>>

\* set_json(key, value, expire_seconds): the store after the command
set_json(key, value, redis_error) == IF redis_error THEN cache ELSE value

\* redis_client.set(key, serialized, ex=expire_seconds) of set_json: the
\* seconds to live of the entries after the command
set_json_ex(key, expire_seconds, redis_error) ==
  IF redis_error THEN expiry ELSE [expiry EXCEPT !.cache = expire_seconds]

\* fetch_and_merge_child_cells, leaf branch: cache_result = set_json(...) of
\* line 139; the result is only printed, the payload is returned either
\* way ("top_set_leaf_err": the call goes on with cache_result an Err)
HolderLeafSet(c, redis_error) ==
  /\ cpc[c] = "leaf_set"
  /\ cache' = set_json(cache_key, CallerPayload(c), redis_error)
  /\ writes' = [writes EXCEPT ![c] = @ + 1]
  /\ cpc' = [cpc EXCEPT ![c] =
               IF redis_error THEN "top_set_leaf_err" ELSE "top_set"]
  /\ UNCHANGED <<lock, waited, token, result, calls, releases, removed, trail>>
  /\ expiry' = set_json_ex(cache_key, cache_ttl, redis_error)
  /\ UNCHANGED <<sockVars, searchVars, helperVars>>

\* set_json of lines 248-264 and the Result it decides
HolderTopSet(c, redis_error) ==
  /\ cpc[c] \in {"top_set", "top_set_leaf_err"}
  /\ cache' = set_json(cache_key, CallerPayload(c), redis_error)
  /\ writes' = [writes EXCEPT ![c] = @ + 1]
  /\ IF redis_error
     THEN /\ result' = [result EXCEPT ![c] = Err("Failed to cache data")]
          /\ cpc' = [cpc EXCEPT ![c] = AfterHolder("cache_failed")]
     ELSE /\ result' = [result EXCEPT ![c] =
                          Ok(filter_payload_by_radius(CallerPayload(c)))]
          /\ cpc' = [cpc EXCEPT ![c] = AfterHolder("ok")]
  /\ UNCHANGED <<lock, waited, token, calls, releases, removed, trail>>
  /\ expiry' = set_json_ex(cache_key, cache_ttl, redis_error)
  /\ UNCHANGED <<sockVars, searchVars, helperVars>>

\* release_lock(key, token), scripted path: the Lua compare-and-delete
ReleaseEval(c) ==
  /\ cpc[c] = "release"
  /\ releases' = [releases EXCEPT ![c] = Append(@, <<cache_key, token[c]>>)]
  /\ IF lock = token[c]
     THEN /\ lock' = NoToken
          /\ removed' = removed \cup {<<token[c], lock>>}
     ELSE UNCHANGED <<lock, removed>>
  /\ cpc' = [cpc EXCEPT ![c] = "done"]
  /\ UNCHANGED <<cache, waited, token, result, calls, writes, trail>>
  /\ expiry' = IF lock' = NoToken THEN [expiry EXCEPT !.lock = 0] ELSE expiry
  /\ UNCHANGED <<sockVars, searchVars, helperVars>>

\* release_lock(key, token): eval raises, the fallback of lines 125-137 starts
ReleaseEvalRaises(c) ==
  /\ cpc[c] = "release"
  /\ releases' = [releases EXCEPT ![c] = Append(@, <<cache_key, token[c]>>)]
  /\ cpc' = [cpc EXCEPT ![c] = "rel_get"]
  /\ UNCHANGED <<lock, cache, waited, token, result, calls, writes, removed,
                 trail>>
  /\ UNCHANGED expiry
  /\ UNCHANGED <<sockVars, searchVars, helperVars>>

\* fallback: current_lock_token = redis_client.get(lock_key) and the compare
ReleaseFallbackGet(c, redis_error) ==
  /\ cpc[c] = "rel_get"
  /\ cpc' = [cpc EXCEPT ![c] =
               IF ~redis_error /\ lock = token[c] THEN "rel_del" ELSE "done"]
  /\ UNCHANGED <<lock, cache, waited, token, result, calls, writes, releases,
                 removed, trail>>
  /\ UNCHANGED expiry
  /\ UNCHANGED <<sockVars, searchVars, helperVars>>

\* fallback: redis_client.delete(lock_key), whatever the key holds by now
ReleaseFallbackDelete(c, redis_error) ==
  /\ cpc[c] = "rel_del"
  /\ IF ~redis_error /\ lock # NoToken
     THEN /\ lock' = NoToken
          /\ removed' = removed \cup {<<token[c], lock>>}
     ELSE UNCHANGED <<lock, removed>>
  /\ cpc' = [cpc EXCEPT ![c] = "done"]
  /\ UNCHANGED <<cache, waited, token, result, calls, writes, releases, trail>>
  /\ expiry' = IF lock' = NoToken THEN [expiry EXCEPT !.lock = 0] ELSE expiry
  /\ UNCHANGED <<sockVars, searchVars, helperVars>>

\* the match of lines 285-297 on get_json(cache_key)
PollHit(value, redis_error) == value # NoPayload /\ ~redis_error

\* one round of the polling loop of lines 281-297
PollGet(c, redis_error) ==
  /\ cpc[c] = "poll"
  /\ IF PollHit(cache, redis_error)
     THEN /\ result' = [result EXCEPT ![c] = Ok(filter_payload_by_radius(cache))]
          /\ cpc' = [cpc EXCEPT ![c] = "done"]
          /\ waited' = [waited EXCEPT ![c] = 0]
          /\ trail' = Mark(c, "poll_hit")
     ELSE /\ result' = result
          /\ waited' = [waited EXCEPT ![c] =
                          IF waited[c] + 1 < WaitRounds THEN @ + 1 ELSE 0]
          /\ cpc' = [cpc EXCEPT ![c] =
                       IF waited[c] + 1 < WaitRounds THEN "poll" ELSE "fb_caller"]
          /\ trail' = IF waited[c] + 1 < WaitRounds THEN trail
                      ELSE Mark(c, "poll_timeout")
  /\ UNCHANGED <<lock, cache, token, calls, writes, releases, removed>>
  /\ UNCHANGED expiry
  /\ UNCHANGED <<sockVars, searchVars, helperVars>>

\* the fallback of lines 301-303: payload = caller(...)
FallbackCaller(c, raises) ==
  /\ cpc[c] = "fb_caller"
  /\ calls' = [calls EXCEPT ![c] = @ + 1]
  /\ IF raises
     THEN /\ result' = [result EXCEPT ![c] = Err("Fallback fetch failed")]
          /\ cpc' = [cpc EXCEPT ![c] = "done"]
          /\ trail' = Mark(c, "fb_raised")
     ELSE /\ result' = result
          /\ cpc' = [cpc EXCEPT ![c] = "fb_set"]
          /\ trail' = trail
  /\ UNCHANGED <<lock, cache, waited, token, writes, releases, removed>>
  /\ UNCHANGED expiry
  /\ UNCHANGED <<sockVars, searchVars, helperVars>>

\* the fallback of lines 305-318: set_json and the Result it decides
FallbackSet(c, redis_error) ==
  /\ cpc[c] = "fb_set"
  /\ cache' = set_json(cache_key, CallerPayload(c), redis_error)
  /\ writes' = [writes EXCEPT ![c] = @ + 1]
  /\ result' = [result EXCEPT ![c] =
                  IF redis_error
                  THEN Err("Failed to cache fallback data")
                  ELSE Ok(filter_payload_by_radius(CallerPayload(c)))]
  /\ trail' = IF redis_error THEN Mark(c, "fb_write_failed") ELSE trail
  /\ cpc' = [cpc EXCEPT ![c] = "done"]
  /\ UNCHANGED <<lock, waited, token, calls, releases, removed>>
  /\ expiry' = set_json_ex(cache_key, cache_ttl, redis_error)
  /\ UNCHANGED <<sockVars, searchVars, helperVars>>

\* the TTL of the lock entry (ex=ttl) runs out
LockExpire ==
  /\ lock # NoToken
  /\ lock' = NoToken
  /\ UNCHANGED <<cache, cpc, waited, token, result, calls, writes, releases,
                 removed, trail>>
  /\ expiry' = IF lock' = NoToken THEN [expiry EXCEPT !.lock = 0] ELSE expiry
  /\ UNCHANGED <<sockVars, searchVars, helperVars>>

InitLock ==
  /\ lock = NoToken
  /\ cache = NoPayload
  /\ expiry = NoExpiry
  /\ cpc = [c \in Clients |-> "idle"]
  /\ waited = [c \in Clients |-> 0]
  /\ token = [c \in Clients |-> NoToken]
  /\ result = [c \in Clients |-> NoResult]
  /\ calls = [c \in Clients |-> 0]
  /\ writes = [c \in Clients |-> 0]
  /\ releases = [c \in Clients |-> <<>>]
  /\ removed = {}
  /\ trail = [c \in Clients |-> {}]

NextLock ==
  \/ \E c \in Clients, e \in BOOLEAN : FocFirstGet(c, e)
  \/ \E c \in Clients, e \in BOOLEAN : acquire_lock_round(c, e)
  \/ \E c \in Clients, e \in BOOLEAN : HolderCaller(c, e)
  \/ \E c \in Clients, e \in BOOLEAN : HolderLeafSet(c, e)
  \/ \E c \in Clients, e \in BOOLEAN : HolderTopSet(c, e)
  \/ \E c \in Clients : ReleaseEval(c)
  \/ \E c \in Clients : ReleaseEvalRaises(c)
  \/ \E c \in Clients, e \in BOOLEAN : ReleaseFallbackGet(c, e)
  \/ \E c \in Clients, e \in BOOLEAN : ReleaseFallbackDelete(c, e)
  \/ \E c \in Clients, e \in BOOLEAN : PollGet(c, e)
  \/ \E c \in Clients, e \in BOOLEAN : FallbackCaller(c, e)
  \/ \E c \in Clients, e \in BOOLEAN : FallbackSet(c, e)
  \/ LockExpire

-----------------------------------------------------------------------------
(* The search engine: s2helpers.py and search_engine.py.                   *)
(* Lengths are integers in units of 5 cm, positions are planar offsets     *)
(* (latitude = northing, longitude = easting) inside one cell of level     *)
(* MIN_S2_LEVEL, and haversine_distance yields the square of the distance, *)
(* compared with the square of a radius.                                   *)

MIN_S2_LEVEL == 10
MAX_S2_LEVEL == 24

\* LEVEL_TO_DIAMETER in units of 5 cm (9766.0 m ... 0.6 m)
LEVEL_TO_DIAMETER ==
  [L \in MIN_S2_LEVEL..MAX_S2_LEVEL |->
     CASE L = 10 -> 195320 [] L = 11 -> 97660 [] L = 12 -> 48820
       [] L = 13 -> 24400  [] L = 14 -> 12200 [] L = 15 -> 6100
       [] L = 16 -> 3060   [] L = 17 -> 1520  [] L = 18 -> 760
       [] L = 19 -> 380    [] L = 20 -> 190   [] L = 21 -> 96
       [] L = 22 -> 48     [] L = 23 -> 24    [] L = 24 -> 12]

RECURSIVE radius_to_level_loop(_, _, _)
radius_to_level_loop(diameter, left_index, right_index) ==
  IF left_index < right_index
  THEN LET middle_index == (left_index + right_index + 1) \div 2
       IN IF LEVEL_TO_DIAMETER[middle_index] >= diameter
          THEN radius_to_level_loop(diameter, middle_index, right_index)
          ELSE radius_to_level_loop(diameter, left_index, middle_index - 1)
  ELSE left_index

\* mutant of radius_to_level: the radius is searched for, not the diameter
radius_to_level_undoubled(radius) ==
  radius_to_level_loop(radius, MIN_S2_LEVEL, MAX_S2_LEVEL)

radius_to_level(radius) ==
  radius_to_level_loop(radius * 2, MIN_S2_LEVEL, MAX_S2_LEVEL)

\* --- the s2cell library, on a planar quad tree --------------------------
\* A cell id holds two position bits per level below MIN_S2_LEVEL, then a
\* one bit, then two zero bits per level down to MAX_S2_LEVEL.

\* edge of a cell of the level
Side(level) == 12 * 2^(MAX_S2_LEVEL - level)

RECURSIVE Interleave(_, _, _)
Interleave(ix, iy, n) ==
  IF n = 0 THEN 0
  ELSE 4 * Interleave(ix \div 2, iy \div 2, n - 1) + 2 * (iy % 2) + (ix % 2)

RECURSIVE EvenBits(_, _)
EvenBits(pos, n) ==
  IF n = 0 THEN 0 ELSE 2 * EvenBits(pos \div 4, n - 1) + (pos % 2)

RECURSIVE _lowest_one_bit_mask(_)
_lowest_one_bit_mask(cell_id) ==
  IF cell_id % 2 = 1 THEN 1 ELSE 2 * _lowest_one_bit_mask(cell_id \div 2)

RECURSIVE Log4(_)
Log4(n) == IF n <= 1 THEN 0 ELSE 1 + Log4(n \div 4)

cell_id_to_level(id) == MAX_S2_LEVEL - Log4(_lowest_one_bit_mask(id))

lat_lon_to_cell_id(latitude, longitude, level) ==
  LET pos == Interleave(longitude \div Side(level), latitude \div Side(level),
                        level - MIN_S2_LEVEL)
  IN (2 * pos + 1) * 4^(MAX_S2_LEVEL - level)

\* column and row of a cell in the grid of its level
CellColumn(id) ==
  EvenBits(id \div (2 * _lowest_one_bit_mask(id)),
           cell_id_to_level(id) - MIN_S2_LEVEL)
CellRow(id) ==
  EvenBits(id \div (4 * _lowest_one_bit_mask(id)),
           cell_id_to_level(id) - MIN_S2_LEVEL)

\* the centre of a cell, as <<latitude, longitude>>
cell_id_to_lat_lon(id) ==
  LET s == Side(cell_id_to_level(id))
  IN <<CellRow(id) * s + s \div 2, CellColumn(id) * s + s \div 2>>

cell_id_to_parent_cell_id(id) ==
  LET new_lobm == 4 * _lowest_one_bit_mask(id)
  IN (id \div (2 * new_lobm)) * (2 * new_lobm) + new_lobm

RECURSIVE StripZeros(_)
StripZeros(id) == IF id % 16 = 0 THEN StripZeros(id \div 16) ELSE id

RECURSIVE TrailingZeros(_)
TrailingZeros(id) == IF id % 16 = 0 THEN 1 + TrailingZeros(id \div 16) ELSE 0

\* the token of a cell: the hexadecimal digits of the id without the
\* trailing zeros, kept here as the digits' value and the number of zeros
cell_id_to_token(id) == <<StripZeros(id), TrailingZeros(id)>>

\* the 8 edge and corner neighbours of a cell
cell_id_to_neighbor_cell_ids(id) ==
  LET level == cell_id_to_level(id)
      s  == Side(level)
      at == cell_id_to_lat_lon(id)
      nb(dy, dx) == lat_lon_to_cell_id(at[1] + dy * s, at[2] + dx * s, level)
  IN << nb(-1, 0), nb(0, 1), nb(1, 0), nb(0, -1),
        nb(-1, -1), nb(-1, 1), nb(1, 1), nb(1, -1) >>

\* --- s2helpers.py --------------------------------------------------------

Cell(id, cell_token, level, latitude, longitude) ==
  [id |-> id, token |-> cell_token, level |-> level,
   latitude |-> latitude, longitude |-> longitude]

SearchRegion(latitude, longitude, radius) ==
  [latitude |-> latitude, longitude |-> longitude, radius |-> radius]

\* a cell built from an id alone, as get_parent, get_children and
\* get_neighbors build it
CellOfId(id) ==
  Cell(id, cell_id_to_token(id), cell_id_to_level(id),
       cell_id_to_lat_lon(id)[1], cell_id_to_lat_lon(id)[2])

clamp(value, minimum, maximum) ==
  IF value < minimum THEN minimum
  ELSE IF value > maximum THEN maximum
  ELSE value

\* the cell carries the position of the region, not the centre of the cell
search_region_to_cell(region) ==
  LET level == radius_to_level(region.radius)
      id == lat_lon_to_cell_id(region.latitude, region.longitude, level)
  IN Cell(id, cell_id_to_token(id), level, region.latitude, region.longitude)

get_bounds(cell) ==
  LET half_size == LEVEL_TO_DIAMETER[cell.level] \div 2
  IN [latitude_min  |-> cell.latitude - half_size,
      longitude_min |-> cell.longitude - half_size,
      latitude_max  |-> cell.latitude + half_size,
      longitude_max |-> cell.longitude + half_size]

get_parent(cell) == CellOfId(cell_id_to_parent_cell_id(cell.id))

\* mutant of get_children: the mask is shifted by one bit, not by two
get_children_half_shift(cell) ==
  LET new_lobm == _lowest_one_bit_mask(cell.id) \div 2
  IN [position \in 1..4 |->
        CellOfId(cell.id + (2 * (position - 1) + 1 - 4) * new_lobm)]

get_children(cell) ==
  LET new_lobm == _lowest_one_bit_mask(cell.id) \div 4
  IN [position \in 1..4 |->
        CellOfId(cell.id + (2 * (position - 1) + 1 - 4) * new_lobm)]

get_neighbors(cell) ==
  [k \in 1..8 |-> CellOfId(cell_id_to_neighbor_cell_ids(cell.id)[k])]

Sq(x) == x * x

\* the square of the distance between two positions
haversine_distance(latitude1, longitude1, latitude2, longitude2) ==
  Sq(latitude2 - latitude1) + Sq(longitude2 - longitude1)

search_region_intersects_cell(region, cell) ==
  LET bounds == get_bounds(cell)
      closest_latitude ==
        clamp(region.latitude, bounds.latitude_min, bounds.latitude_max)
      closest_longitude ==
        clamp(region.longitude, bounds.longitude_min, bounds.longitude_max)
  IN haversine_distance(region.latitude, region.longitude,
                        closest_latitude, closest_longitude)
       <= Sq(region.radius)

get_intersecting_cells(region, center_cell) ==
  <<center_cell>> \o
    SelectSeq(get_neighbors(center_cell),
              LAMBDA neighbor : search_region_intersects_cell(region, neighbor))

\* --- search_engine.py ----------------------------------------------------

MAX_RECURSION_LEVEL == 16

\* seconds: 12 hours
DEFAULT_CACHE_TTL == 60 * 60 * 12

\* get_places_in_region calls in one run
MaxSearches == 2

Place(name, latitude, longitude) ==
  [name |-> name, latitude |-> latitude, longitude |-> longitude]

\* a place as the places API reports it; components holds the types of its
\* address components
ApiPlace(name, latitude, longitude, components) ==
  [name |-> name, latitude |-> latitude, longitude |-> longitude,
   components |-> components]

\* the component types decode_place looks for
AddressComponents == {"administrative_area_level_1", "postal_code"}

\* Ok(Place) when the place has a state and a zip code component, Err
\* otherwise (result.unwrap of the Err ends the function under with_unwrap)
decode_place(api_place) ==
  IF "administrative_area_level_1" \notin api_place.components
    THEN [ok |-> FALSE, value |-> Place("", 0, 0)]
  ELSE IF "postal_code" \notin api_place.components
    THEN [ok |-> FALSE, value |-> Place("", 0, 0)]
  ELSE [ok |-> TRUE,
        value |-> Place(api_place.name, api_place.latitude,
                        api_place.longitude)]

RECURSIVE do_try_map(_, _, _)
\* listutils.do_try_map with decode_place as fun, from item k on: the first
\* Err ends the loop and is the result
do_try_map(lst, k, acc) ==
  IF k > Len(lst) THEN [ok |-> TRUE, value |-> acc]
  ELSE LET res == decode_place(lst[k])
       IN IF res.ok THEN do_try_map(lst, k + 1, Append(acc, res.value))
          ELSE [ok |-> FALSE, value |-> <<>>]

\* the places API, asked for the circle around a position: the places it
\* knows inside the circle, in a fixed order
send_request(latitude, longitude, radius) ==
  SelectSeq(upstream,
            LAMBDA place :
              haversine_distance(latitude, longitude,
                                 place.latitude, place.longitude)
                <= Sq(radius))

\* Ok(places); Err when the key is missing, the status is not 200 or the
\* response does not decode; places_session.post itself raises when the
\* API cannot be reached, and with_unwrap lets that exception through
fetch_places_for_cell(cell) ==
  LET radius == LEVEL_TO_DIAMETER[cell.level] \div 2
  IN IF cell.token \in raising
     THEN [ok |-> FALSE, places |-> <<>>, raised |-> TRUE]
     ELSE IF cell.token \in failing
     THEN [ok |-> FALSE, places |-> <<>>, raised |-> FALSE]
     ELSE LET places == do_try_map(
                          send_request(cell.latitude, cell.longitude, radius),
                          1, <<>>)
          IN [ok |-> places.ok, places |-> places.value, raised |-> FALSE]

\* result.unwrap_or(default)
unwrap_or(res, default) == IF res.ok THEN res.places ELSE default

\* PLACES_ADAPTER.dump_json: the bytes stored for a place list
serialize_places(places) == [valid |-> TRUE, places |-> places]

\* client.set(name, value, ex=seconds): the entry stored, the bytes and the
\* seconds to live
Stored(bytes, ex) == [valid |-> bytes.valid, places |-> bytes.places, ex |-> ex]

\* bytes that do not validate as a place list
CorruptedBytes == [valid |-> FALSE, places |-> <<>>]

\* "ok" with the places, "miss" (CacheMiss) or "corrupted" (CorruptedValue)
load_places_from_cache(client, cell) ==
  IF cell.token \notin DOMAIN client
  THEN [kind |-> "miss", places |-> <<>>]
  ELSE IF client[cell.token].valid
  THEN [kind |-> "ok", places |-> client[cell.token].places]
  ELSE [kind |-> "corrupted", places |-> <<>>]

\* mutant of cache_places: nothing is written
cache_places_skipped(client, cell, places) == client

\* client.set(cell.token, serialize_places(places), ex=DEFAULT_CACHE_TTL):
\* the store after the command
cache_places(client, cell, places) ==
  DictSet(client, cell.token,
          Stored(serialize_places(places), DEFAULT_CACHE_TTL))

RECURSIVE get_places_in_region_loop(_, _, _)
RECURSIVE LoopChildren(_, _, _, _)

\* one pass of the body of the for loop of lines 235-247: acc is the walk
\* so far, loaded the outcome of load_places_from_cache for the child and
\* sub the outcome of the recursive call, which is used on a miss only
LoopStep(acc, child, loaded, sub) ==
  CASE loaded.kind = "ok" ->
         [acc EXCEPT !.places = @ \o loaded.places]
    [] loaded.kind = "miss" /\ ~sub.raised ->
         [places  |-> acc.places \o sub.places,
          client  |-> cache_places(sub.client, child, sub.places),
          fetched |-> acc.fetched \o sub.fetched,
          raised  |-> FALSE,
          depth   |-> IF sub.depth + 1 > acc.depth
                      THEN sub.depth + 1 ELSE acc.depth]
    [] loaded.kind = "miss" /\ sub.raised ->
         [places  |-> acc.places,
          client  |-> sub.client,
          fetched |-> acc.fetched \o sub.fetched,
          raised  |-> TRUE,
          depth   |-> IF sub.depth + 1 > acc.depth
                      THEN sub.depth + 1 ELSE acc.depth]
    [] OTHER -> acc

\* the for loop of lines 235-247 from child k on; acc holds the places
\* gathered so far, the store, the tokens of the cells fetched upstream,
\* whether an exception is on its way out of the walk, and the deepest
\* nesting of calls below this one
LoopChildren(acc, region, children, k) ==
  IF k > Len(children) \/ acc.raised THEN acc
  ELSE LoopChildren(
         LoopStep(acc, children[k],
                  load_places_from_cache(acc.client, children[k]),
                  get_places_in_region_loop(acc.client, region, children[k])),
         region, children, k + 1)

\* mutant of get_places_in_region_loop: the fetch starts one level above
\* MAX_RECURSION_LEVEL
get_places_in_region_loop_early(client, region, cell) ==
  IF cell.level + 1 >= MAX_RECURSION_LEVEL
  THEN LET res == fetch_places_for_cell(cell)
       IN [places  |-> unwrap_or(res, <<>>),
           client  |-> client,
           fetched |-> <<cell.token>>,
           raised  |-> res.raised,
           depth   |-> 0]
  ELSE LoopChildren([places |-> <<>>, client |-> client, fetched |-> <<>>,
                     raised |-> FALSE, depth |-> 0],
                    region, get_children(cell), 1)

\* lines 221-249: a cell at MAX_RECURSION_LEVEL or finer is fetched, a
\* coarser one is split and its children are loaded or walked in turn
get_places_in_region_loop(client, region, cell) ==
  IF cell.level >= MAX_RECURSION_LEVEL
  THEN LET res == fetch_places_for_cell(cell)
       IN [places  |-> unwrap_or(res, <<>>),
           client  |-> client,
           fetched |-> <<cell.token>>,
           raised  |-> res.raised,
           depth   |-> 0]
  ELSE LoopChildren([places |-> <<>>, client |-> client, fetched |-> <<>>,
                     raised |-> FALSE, depth |-> 0],
                    region, get_children(cell), 1)

calc_dist_from_region_to_nearest_boundary(region, parent) ==
  LET parent_bounds == get_bounds(parent)
      top    == haversine_distance(region.latitude, region.longitude,
                                   parent_bounds.latitude_max, region.longitude)
      bottom == haversine_distance(region.latitude, region.longitude,
                                   parent_bounds.latitude_min, region.longitude)
      left   == haversine_distance(region.latitude, region.longitude,
                                   region.latitude, parent_bounds.longitude_min)
      right  == haversine_distance(region.latitude, region.longitude,
                                   region.latitude, parent_bounds.longitude_max)
      min2(a, b) == IF a <= b THEN a ELSE b
  IN min2(min2(top, bottom), min2(left, right))

\* the cells get_places_in_region walks, in order (lines 186-195)
CoveringCells(region) ==
  LET cell == search_region_to_cell(region)
      parent == get_parent(cell)
  IN IF calc_dist_from_region_to_nearest_boundary(region, parent)
          <= Sq(region.radius)
     THEN <<cell>> \o get_intersecting_cells(region, cell)
     ELSE <<cell>>

RECURSIVE ForNeighbors(_, _, _, _)
\* the for loop of lines 203-206 from neighbour k on
ForNeighbors(acc, region, neighbors, k) ==
  IF k > Len(neighbors) \/ acc.raised THEN acc
  ELSE LET walk == get_places_in_region_loop(acc.client, region, neighbors[k])
       IN ForNeighbors(
            IF walk.raised
            THEN [places  |-> acc.places,
                  client  |-> walk.client,
                  fetched |-> acc.fetched \o walk.fetched,
                  raised  |-> TRUE]
            ELSE [places  |-> acc.places \o walk.places,
                  client  |-> cache_places(walk.client, neighbors[k],
                                           walk.places),
                  fetched |-> acc.fetched \o walk.fetched,
                  raised  |-> FALSE],
            region, neighbors, k + 1)

\* mutant of InRadius: the boundary of the circle is left out
InRadius_open(region, place) ==
  haversine_distance(region.latitude, region.longitude,
                     place.latitude, place.longitude) < Sq(region.radius)

\* the predicate of the final filter (lines 208-214)
InRadius(region, place) ==
  haversine_distance(region.latitude, region.longitude,
                     place.latitude, place.longitude) <= Sq(region.radius)

\* the whole call: the list returned, places_included, the store it leaves,
\* the tokens of the cells it fetched upstream, and whether it raised
\* instead of returning (it then returns nothing)
get_places_in_region(client, region) ==
  LET gathered == ForNeighbors(
                    [places |-> <<>>, client |-> client, fetched |-> <<>>,
                     raised |-> FALSE],
                    region, CoveringCells(region), 1)
      included == IF gathered.raised THEN <<>> ELSE gathered.places
  IN [filtered_places |-> SelectSeq(included,
                                    LAMBDA place : InRadius(region, place)),
      places_included |-> included,
      client          |-> gathered.client,
      fetched         |-> gathered.fetched,
      raised          |-> gathered.raised]

\* --- the searches of the model --------------------------------------------

\* the corner of a level-11 cell, away from the edge of the level-10 cell
Origin == Side(11)

NearCentre == [latitude |-> Origin + 3000, longitude |-> Origin + 3000]
EdgeCentre == [latitude |-> Origin + 3000, longitude |-> Origin + 5500]
WideCentre == [latitude |-> Origin + 7000, longitude |-> Origin + 7000]

\* 50 m and 100 m around NearCentre (covering levels 16 and 15, inside the
\* parent's bounds), 50 m around EdgeCentre (level 16, crossing the parent's
\* edge) and 300 m around WideCentre (level 14)
Regions ==
  { SearchRegion(NearCentre.latitude, NearCentre.longitude, 1000),
    SearchRegion(NearCentre.latitude, NearCentre.longitude, 2000),
    SearchRegion(EdgeCentre.latitude, EdgeCentre.longitude, 1000),
    SearchRegion(WideCentre.latitude, WideCentre.longitude, 6000) }

PlaceAt(name, dlat, dlon) ==
  ApiPlace(name, NearCentre.latitude + dlat, NearCentre.longitude + dlon,
           AddressComponents)

\* a place the API reports without a zip code
PlaceWithoutZipAt(name, dlat, dlon) ==
  ApiPlace(name, NearCentre.latitude + dlat, NearCentre.longitude + dlon,
           {"administrative_area_level_1"})

\* what the upstream API may know: nothing; a place close to NearCentre and
\* one 75 m away; those and, next to the first, one without a zip code;
\* those two, one exactly 50 m away and one 200 m to the west
UpstreamChoices ==
  { <<>>,
    << PlaceAt("cafe", 300, 100), PlaceAt("museum", 0, 1500) >>,
    << PlaceAt("cafe", 300, 100), PlaceWithoutZipAt("kiosk", 300, 200),
       PlaceAt("museum", 0, 1500) >>,
    << PlaceAt("cafe", 300, 100), PlaceAt("bank", 800, 600),
       PlaceAt("museum", 0, 1500), PlaceAt("park", 0, -4000) >> }

\* the cells whose upstream fetch fails: none, the level-16 cell of
\* NearCentre, or the level-16 cell 75 m to its east
FailChoices ==
  { {},
    { cell_id_to_token(lat_lon_to_cell_id(NearCentre.latitude,
                                          NearCentre.longitude,
                                          MAX_RECURSION_LEVEL)) },
    { cell_id_to_token(lat_lon_to_cell_id(NearCentre.latitude,
                                          NearCentre.longitude + 1500,
                                          MAX_RECURSION_LEVEL)) } }

\* the cells for which the places API cannot be reached: none, or the
\* level-16 cell 75 m east of NearCentre
RaiseChoices ==
  { {},
    { cell_id_to_token(lat_lon_to_cell_id(NearCentre.latitude,
                                          NearCentre.longitude + 1500,
                                          MAX_RECURSION_LEVEL)) } }

\* the entries the environment may touch: those of the level-15 and
\* level-16 cells of NearCentre
Watched ==
  { cell_id_to_token(lat_lon_to_cell_id(NearCentre.latitude,
                                        NearCentre.longitude, level)) :
      level \in {MAX_RECURSION_LEVEL - 1, MAX_RECURSION_LEVEL} }

\* one call of get_places_in_region, from its first line to its return
Search(region) ==
  /\ Len(log) < MaxSearches
  /\ LET out == get_places_in_region(redis, region)
     IN /\ redis' = out.client
        /\ log' = Append(log, [region   |-> region,
                               returned |-> out.filtered_places,
                               included |-> out.places_included,
                               fetched  |-> out.fetched,
                               raised   |-> out.raised,
                               pristine |-> ~tampered])
  /\ UNCHANGED <<upstream, failing, raising, tampered>>
  /\ UNCHANGED <<sockVars, lockVars, helperVars>>

\* the TTL of an entry (ex=DEFAULT_CACHE_TTL) runs out
CacheExpire(tok) ==
  /\ ~tampered
  /\ tok \in DOMAIN redis
  /\ redis' = DictDel(redis, tok)
  /\ tampered' = TRUE
  /\ UNCHANGED <<upstream, failing, raising, log>>
  /\ UNCHANGED <<sockVars, lockVars, helperVars>>

\* bytes that are no place list are stored under the token of a cell
CacheCorrupt(tok) ==
  /\ ~tampered
  /\ tok \in DOMAIN redis
  /\ redis' = DictSet(redis, tok, Stored(CorruptedBytes, redis[tok].ex))
  /\ tampered' = TRUE
  /\ UNCHANGED <<upstream, failing, raising, log>>
  /\ UNCHANGED <<sockVars, lockVars, helperVars>>

InitSearch ==
  /\ redis = EmptyDict
  /\ upstream \in UpstreamChoices
  /\ failing \in FailChoices
  /\ raising \in RaiseChoices
  /\ failing = {} \/ raising = {}
  /\ tampered = FALSE
  /\ log = <<>>

\* the search engine at rest, for the runs of the other subsystems
SearchAtRest == upstream = <<>> /\ failing = {} /\ raising = {}

NextSearch ==
  \/ \E region \in Regions : Search(region)
  \/ \E tok \in Watched : CacheExpire(tok)
  \/ \E tok \in Watched : CacheCorrupt(tok)

-----------------------------------------------------------------------------
(* The functions without state, each applied to inputs from a bounded set. *)
(* Latitudes and longitudes of a payload are whole degrees, radii metres.  *)

\* nothing has been applied yet
NoProbe == [fn |-> "none", input |-> 0, output |-> 0]

Applied(fn, input, output) == [fn |-> fn, input |-> input, output |-> output]

\* the defaults of data.get (the coordinates of GMU, to the degree)
DefaultLatitude == 39
DefaultLongitude == -77
DefaultRadius == 1000

\* lines 88-93 of on_location_update: the region handed to the search
\* engine for a payload
RegionOfPayload(data) ==
  SearchRegion(DictGet(data, "latitude", DefaultLatitude),
               DictGet(data, "longitude", DefaultLongitude),
               DictGet(data, "radius", DefaultRadius))

\* the numbers a payload may carry for a field
ProbeLatitudes == {-91, -90, 0, 39, 90, 91}
ProbeLongitudes == {-181, -180, -77, 0, 180, 181}
ProbeRadii == {-1, 0, 500, 1000, 1001, 5000}

\* the payloads of the model: every field present, or the radius left out
Payloads ==
  {[key \in {"latitude", "longitude", "radius"} |->
      CASE key = "latitude" -> lat [] key = "longitude" -> lon [] OTHER -> rad]
     : lat \in ProbeLatitudes, lon \in ProbeLongitudes, rad \in ProbeRadii}
  \cup {[key \in {"latitude", "longitude"} |-> IF key = "latitude" THEN lat ELSE lon]
          : lat \in ProbeLatitudes, lon \in ProbeLongitudes}

\* on_location_update builds the region of a payload
BuildRegion(data) ==
  /\ probe' = Applied("on_location_update", data, RegionOfPayload(data))
  /\ UNCHANGED <<sockVars, lockVars, searchVars>>

\* radii in units of 5 cm: a dense range around zero and, for every level,
\* the radii next to half its diameter
DenseRadii == 400

LevelRadii ==
  (-2..DenseRadii)
    \cup {LEVEL_TO_DIAMETER[L] \div 2 + k :
            L \in MIN_S2_LEVEL..MAX_S2_LEVEL, k \in {-1, 0, 1}}
    \cup {LEVEL_TO_DIAMETER[MIN_S2_LEVEL]}

\* radius_to_level is applied to a radius
ChooseLevel(radius) ==
  /\ probe' = Applied("radius_to_level", radius, radius_to_level(radius))
  /\ UNCHANGED <<sockVars, lockVars, searchVars>>

\* positions inside the cell of level MIN_S2_LEVEL: its corners' cells, its
\* middle and the centres of the searches
ProbePositions ==
  { [latitude |-> 0, longitude |-> 0],
    [latitude |-> Side(MIN_S2_LEVEL) - 1, longitude |-> Side(MIN_S2_LEVEL) - 1],
    [latitude |-> 0, longitude |-> Side(MIN_S2_LEVEL) - 1],
    [latitude |-> Side(MIN_S2_LEVEL) \div 2, longitude |-> Side(MIN_S2_LEVEL) \div 2],
    NearCentre, EdgeCentre, WideCentre }

\* the cells of every level that hold one of the positions
ProbeCells ==
  { CellOfId(lat_lon_to_cell_id(at.latitude, at.longitude, level)) :
      at \in ProbePositions, level \in MIN_S2_LEVEL..MAX_S2_LEVEL }

\* get_children is applied to a cell
SplitCell(cell) ==
  /\ probe' = Applied("get_children", cell, get_children(cell))
  /\ UNCHANGED <<sockVars, lockVars, searchVars>>

\* --- redis_caching.py: filter_payload_by_radius -----------------------------
\* The single-flight model above uses this function through its two
\* labelled places; here it is applied to payloads as the cache holds them.

\* a coordinate as a payload carries it: float() of it gives value, or
\* raises when it does not parse
Number(value) == [parses |-> TRUE, value |-> value]
NotANumber == [parses |-> FALSE, value |-> 0]

\* haversine_distance_m: the square of the distance, as haversine_distance
haversine_distance_m(lat1, lon1, lat2, lon2) ==
  Sq(lat2 - lat1) + Sq(lon2 - lon1)

\* mutant of FilterKeeps: a place that does not parse is dropped
FilterKeeps_fail_closed(place, lat, lon, radius_m) ==
  IF ~place.latitude.parses \/ ~place.longitude.parses
  THEN FALSE
  ELSE haversine_distance_m(lat, lon, place.latitude.value,
                            place.longitude.value) <= Sq(radius_m)

\* the body of the loop (lines 334-343): whether the place is appended.
\* float() raising inside the try leads to the except clause, which appends
FilterKeeps(place, lat, lon, radius_m) ==
  IF ~place.latitude.parses \/ ~place.longitude.parses
  THEN TRUE
  ELSE haversine_distance_m(lat, lon, place.latitude.value,
                            place.longitude.value) <= Sq(radius_m)

RECURSIVE FilterLoop(_, _, _, _, _, _)
\* the for loop of lines 333-343 from place k on
FilterLoop(places, k, lat, lon, radius_m, filtered) ==
  IF k > Len(places) THEN filtered
  ELSE FilterLoop(places, k + 1, lat, lon, radius_m,
                  IF FilterKeeps(places[k], lat, lon, radius_m)
                  THEN Append(filtered, places[k])
                  ELSE filtered)

\* filter_payload_by_radius(payload, lat, lon, radius_m); a payload is a
\* dict, given by its keys and their values
filter_payload_by_radius_m(payload, lat, lon, radius_m) ==
  IF payload.keys = {} \/ "places" \notin payload.keys
  THEN payload
  ELSE [keys |-> {"places"},
        places |-> FilterLoop(payload.places, 1, lat, lon, radius_m, <<>>),
        other |-> ""]

\* a dict with the given keys; a key that is absent has no value
Dict(keys, places, other) ==
  [keys |-> keys,
   places |-> IF "places" \in keys THEN places ELSE <<>>,
   other |-> IF "other" \in keys THEN other ELSE ""]

\* the centre and the radius of the filter
FilterCentre == [latitude |-> 10, longitude |-> 20]
FilterRadius == 5

FilterPlace(name, latitude, longitude) ==
  [name |-> name, latitude |-> latitude, longitude |-> longitude]

\* places inside the circle, on it, outside it, and places with a
\* coordinate that does not parse
FilterPlaces ==
  { FilterPlace("close_place", Number(FilterCentre.latitude + 1),
                Number(FilterCentre.longitude - 1)),
    FilterPlace("rim_place", Number(FilterCentre.latitude + 3),
                Number(FilterCentre.longitude + 4)),
    FilterPlace("far_place", Number(FilterCentre.latitude + 6),
                Number(FilterCentre.longitude)),
    FilterPlace("invalid_place", NotANumber,
                Number(FilterCentre.longitude + 9)),
    FilterPlace("invalid_longitude", Number(FilterCentre.latitude),
                NotANumber) }

\* place lists of the probes
MaxPlaces == 2
PlaceLists ==
  UNION { [1..n -> FilterPlaces] : n \in 0..MaxPlaces }

\* the payloads given to the filter: the empty dict, a dict without places,
\* and dicts with a place list, with and without another key
FilterPayloads ==
  { Dict({}, <<>>, ""), Dict({"other"}, <<>>, "data") }
    \cup { Dict(keys, places, "data") :
             keys \in {{"places"}, {"places", "other"}},
             places \in PlaceLists }

\* filter_payload_by_radius is applied to a payload
FilterPayload(payload) ==
  /\ probe' = Applied("filter_payload_by_radius", payload,
                      filter_payload_by_radius_m(payload,
                                                 FilterCentre.latitude,
                                                 FilterCentre.longitude,
                                                 FilterRadius))
  /\ UNCHANGED <<sockVars, lockVars, searchVars>>

\* --- search_engine.py: the walk of one covering cell ----------------------

\* the token of the cell of a level that holds NearCentre
TokenAt(level) ==
  cell_id_to_token(lat_lon_to_cell_id(NearCentre.latitude,
                                      NearCentre.longitude, level))

\* stores the walk may find: nothing; place lists under cells of three
\* levels; and a place list next to bytes that do not decode
WalkStores ==
  { EmptyDict,
    [tok \in {TokenAt(12), TokenAt(15), TokenAt(16)} |->
       Stored(serialize_places(<<>>), DEFAULT_CACHE_TTL)],
    [tok \in {TokenAt(13), TokenAt(14)} |->
       IF tok = TokenAt(13)
       THEN Stored(serialize_places(<<>>), DEFAULT_CACHE_TTL)
       ELSE Stored(CorruptedBytes, DEFAULT_CACHE_TTL)] }

\* the covering cells of the probes: the cell of every level at NearCentre
WalkCells ==
  { CellOfId(lat_lon_to_cell_id(NearCentre.latitude, NearCentre.longitude,
                                level)) :
      level \in MIN_S2_LEVEL..MAX_S2_LEVEL }

\* get_places_in_region_loop is applied to a covering cell and a store; of
\* what it returns the probe keeps the number of fetches and the depth
WalkCell(client, cell) ==
  /\ probe = NoProbe
  /\ LET walk == get_places_in_region_loop(
                   client,
                   SearchRegion(NearCentre.latitude, NearCentre.longitude, 0),
                   cell)
     IN probe' = Applied("get_places_in_region_loop",
                         [level |-> cell.level, stored |-> DOMAIN client],
                         [fetches |-> Len(walk.fetched), depth |-> walk.depth])
  /\ UNCHANGED <<sockVars, lockVars, searchVars>>

\* --- redis_caching.py: get_child_cell_ids -----------------------------------

\* lines 103-114: no children below MAX_S2_LEVEL; otherwise cell_id << 2
\* and the three ids after it (Python integers do not overflow)
get_child_cell_ids(cell_id) ==
  LET child_level == cell_id_to_level(cell_id) + 1
  IN IF child_level > MAX_S2_LEVEL
     THEN <<>>
     ELSE LET first_child == cell_id * 4
          IN [i \in 1..4 |-> first_child + (i - 1)]

\* get_child_cell_ids is applied to the id of a cell
ChildCellIds(cell) ==
  /\ probe' = Applied("get_child_cell_ids", cell, get_child_cell_ids(cell.id))
  /\ UNCHANGED <<sockVars, lockVars, searchVars>>

InitHelpers == probe = NoProbe

NextHelpers ==
  \/ \E data \in Payloads : BuildRegion(data)
  \/ \E radius \in LevelRadii : ChooseLevel(radius)
  \/ \E cell \in ProbeCells : SplitCell(cell)
  \/ \E payload \in FilterPayloads : FilterPayload(payload)
  \/ \E client \in WalkStores, cell \in WalkCells : WalkCell(client, cell)
  \/ \E cell \in ProbeCells : ChildCellIds(cell)

-----------------------------------------------------------------------------
(* Specifications: each subsystem runs from the initial state of all *)

\* the state after construction: no session, no call, an empty place cache
Init == InitSocket /\ InitLock /\ InitSearch /\ InitHelpers

\* the same with the search engine at rest
InitAtRest == Init /\ SearchAtRest

SpecSocket == InitAtRest /\ [][NextSocket]_vars

SpecLock == InitAtRest /\ [][NextLock]_vars

SpecSearch == Init /\ [][NextSearch]_vars

SpecHelpers == InitAtRest /\ [][NextHelpers]_vars


-----------------------------------------------------------------------------
(* Properties of the streaming dispatcher, checked under SpecSocket *)

Streamed == {"places_update", "places_complete"}

\* C1 (supersession): in the message sequence of a session, no places_update
\* and no places_complete of a request follows a message of a later request,
\* whatever the interleaving of the handlers and their workers.
C1_Supersession ==
  \A s \in Sessions : \A i, j \in DOMAIN emitted[s] :
    (i < j /\ emitted[s][j].name \in Streamed)
      => emitted[s][j].rid >= emitted[s][i].rid

\* C1 witness: request 2 arrived while the search of request 1 was running,
\* both have emitted, and the handler of request 1 is still in its search.
C1_Witness ==
  \E s \in Sessions :
    /\ hpc[s][1] = "searching"
    /\ \E i, j \in DOMAIN emitted[s] :
         i < j /\ emitted[s][i].rid = 1 /\ emitted[s][j].rid = 2

\* C2: within one request, no places_update is emitted once its
\* places_complete has been emitted.
C2_CompleteAfterUpdates ==
  \A s \in Sessions : \A i, j \in DOMAIN emitted[s] :
    (i < j /\ emitted[s][i].name = "places_complete"
           /\ emitted[s][i].rid = emitted[s][j].rid)
      => emitted[s][j].name # "places_update"

\* C2 witness: a request with two workers has streamed both batches and then
\* completed.
C2_Witness ==
  \E s \in Sessions, r \in RequestIds :
    /\ Cardinality(WorkersOf(s, r)) = 2
    /\ emitted[s] = <<Event("places_update", r), Event("places_update", r),
                      Event("places_complete", r)>>

\* C7 as claimed: once a newer request of a session has started its search,
\* every worker spawned for an older request of that session has been killed
\* (or had already ended).
C7_SupersededWorkersKilled ==
  \A s \in Sessions : \A r \in RequestIds :
    r < DictGet(active_requests, s, 0)
      => \A w \in WorkersOf(s, r) : Dead(w)

\* C8 as claimed: after on_disconnect has run for a session, the session has
\* no entry in active_requests and none in active_greenlets, in every later
\* state.
C8_DisconnectDiscards ==
  \A s \in opened \ connected :
    s \notin DOMAIN active_requests /\ s \notin DOMAIN active_greenlets

-----------------------------------------------------------------------------
(* Properties of fetch_or_cache_region and the lock helpers, checked under *)
(* SpecLock *)

\* C5 as claimed (single-flight): among concurrent identical calls, a call
\* that obtains the lock when the key has already been populated makes no
\* upstream call of its own.
C5_SingleFlight ==
  \A c \in Clients : "locked_populated" \in trail[c] => calls[c] = 0

\* C6 as claimed: release_lock(K, t) never removes a lock entry whose stored
\* value differs from t, on the scripted path and on the fallback path.
C6_CompareAndDelete ==
  \A p \in removed : p[1] = p[2]

\* C9 as claimed, the case of a value appearing: a call whose set-if-absent
\* failed after its initial miss, and for which a value of K has appeared
\* by the time it stops waiting, returns without invoking the upstream
\* workload.
C9_ContendedCallPolls ==
  \A c \in Clients :
    ({"contended", "locked_populated"} \subseteq trail[c]) => calls[c] = 0

\* C18 as claimed: a location_update with an invalid payload makes the
\* handler emit an error message to the client and start no search: no
\* worker is spawned for the request.
C18_InvalidPayloadRejected ==
  [][\A s \in Sessions, r \in RequestIds :
       (hpc[s][r] = "idle" /\ hpc'[s][r] = "invalid")
         => /\ emitted'[s] = Append(emitted[s], Event("error", r))
            /\ DOMAIN greenlet' = DOMAIN greenlet]_vars

\* C11 as claimed: a call that missed on its first get, acquired the lock
\* and sees every cache write succeed has, once its last write is done,
\* invoked the upstream caller exactly once and set_json exactly once, and
\* the result it returns is Ok with the caller's places within the radius.
C11_MissPopulatesOnce ==
  [][\A c \in Clients :
       (cpc[c] = "top_set" /\ cpc'[c] = "release" /\ result'[c].ok)
         => /\ calls'[c] = 1
            /\ writes'[c] = 1
            /\ result'[c] = Ok(filter_payload_by_radius(CallerPayload(c)))]_vars

\* a call that returned from a hit on its first get_json
FirstHit(c) == cpc[c] = "done" /\ "first_hit" \in trail[c]

C17_CacheFailureNotSurfaced ==
  \A c \in Clients :
    (cpc[c] = "done" /\ ~result[c].ok)
      => result[c].msg \in {"Failed to fetch data", "Fallback fetch failed"}

\* C10: a call that acquired the lock with token t calls release_lock(K, t)
\* exactly once before it returns, with that key and token, and a call
\* that holds no token never calls it.
C10_ReleaseOnce ==
  \A c \in Clients :
    /\ Len(releases[c]) <= 1
    /\ \A i \in DOMAIN releases[c] :
         token[c] # NoToken /\ releases[c][i] = <<cache_key, token[c]>>
    /\ (cpc[c] = "done" /\ token[c] # NoToken) => Len(releases[c]) = 1

\* C10 witness: two calls that held the lock have returned, one because the
\* upstream workload raised and one because the cache write failed, and each
\* has released once.
C10_Witness ==
  \E c, d \in Clients :
    /\ cpc[c] = "done" /\ cpc[d] = "done"
    /\ result[c] = Err("Failed to fetch data")
    /\ result[d] = Err("Failed to cache data")
    /\ Len(releases[c]) = 1 /\ Len(releases[d]) = 1

-----------------------------------------------------------------------------
(* Properties of get_places_in_region, checked under SpecSearch *)

Range(seq) == {seq[k] : k \in DOMAIN seq}

\* C3 as claimed (caching idempotence): when the first two calls of a run
\* are for the same region, start from an empty cache and no entry expired
\* or was corrupted in between, the second call returns the same set of
\* places as the first and fetches nothing from upstream.
C3_CachingIdempotence ==
  (Len(log) >= 2 /\ log[1].region = log[2].region /\ log[2].pristine)
    => /\ log[2].fetched = <<>>
       /\ Range(log[2].returned) = Range(log[1].returned)

\* C4: every place a call returns lies within region.radius of the centre
\* of the region, and every place gathered from the walked cells that lies
\* within that distance is returned.
C4_DistanceFilter ==
  \A i \in DOMAIN log :
    LET region == log[i].region
        d(place) == haversine_distance(region.latitude, region.longitude,
                                       place.latitude, place.longitude)
    IN /\ \A place \in Range(log[i].returned) :
            place \in Range(log[i].included) /\ d(place) <= Sq(region.radius)
       /\ \A place \in Range(log[i].included) :
            d(place) <= Sq(region.radius) => place \in Range(log[i].returned)

\* C4 witness: a call gathered a place beyond the radius, which it dropped,
\* and a place exactly on the circle, which it returned.
C4_Witness ==
  \E i \in DOMAIN log :
    LET region == log[i].region
        d(place) == haversine_distance(region.latitude, region.longitude,
                                       place.latitude, place.longitude)
    IN /\ \E place \in Range(log[i].included) : d(place) > Sq(region.radius)
       /\ \E place \in Range(log[i].returned) : d(place) = Sq(region.radius)

\* C14 as claimed: a search leaves every entry that does not decode into a
\* place list as it found it, whether it belongs to a covering cell or to
\* a descendant the walk reaches.
C14_CorruptedPreserved ==
  [][\A tok \in DOMAIN redis :
       (Len(log') > Len(log) /\ ~redis[tok].valid)
         => (tok \in DOMAIN redis' /\ redis'[tok] = redis[tok])]_vars

\* the store without the entries that do not decode into a place list
Decodable(client) ==
  [tok \in {t \in DOMAIN client : client[t].valid} |-> client[tok]]

\* C15 as claimed: a search that meets corrupted entries gathers the places
\* it would gather if those entries were absent (each such cell is walked
\* like a miss), and leaves the corrupted entries of child cells as they
\* are.
C15_CorruptedChildIsMiss ==
  [][Len(log') > Len(log)
       => LET call == log'[Len(log')]
          IN call.included =
               get_places_in_region(Decodable(redis), call.region)
                 .places_included]_vars

RECURSIVE Leaves(_)
\* the cells of MAX_RECURSION_LEVEL below a cell, in the order of the walk
Leaves(cell) ==
  IF cell.level >= MAX_RECURSION_LEVEL THEN <<cell>>
  ELSE LET children == get_children(cell)
       IN Leaves(children[1]) \o Leaves(children[2])
            \o Leaves(children[3]) \o Leaves(children[4])

RECURSIVE LeavesOfAll(_, _)
\* the leaves below the cells from cell k on
LeavesOfAll(cells, k) ==
  IF k > Len(cells) THEN <<>>
  ELSE Leaves(cells[k]) \o LeavesOfAll(cells, k + 1)

\* what a leaf should add to the places gathered
LeafShare(leaf) ==
  IF leaf.token \in failing \cup raising THEN <<>>
  ELSE LET places == do_try_map(
                       send_request(leaf.latitude, leaf.longitude,
                                    LEVEL_TO_DIAMETER[leaf.level] \div 2),
                       1, <<>>)
       IN IF places.ok THEN places.value ELSE <<>>

RECURSIVE SharesFrom(_, _)
\* the shares of the leaves from leaf k on, one after the other
SharesFrom(leaves, k) ==
  IF k > Len(leaves) THEN <<>>
  ELSE LeafShare(leaves[k]) \o SharesFrom(leaves, k + 1)

\* what a search of the region on an empty cache should fetch and gather
Expected(region) ==
  LET leaves == LeavesOfAll(CoveringCells(region), 1)
  IN [fetched  |-> [k \in DOMAIN leaves |-> leaves[k].token],
      included |-> SharesFrom(leaves, 1)]

\* C16 as claimed: a search on an empty cache returns normally with what
\* the upstream API knows around each leaf of its covering cells, leaf by
\* leaf, and with nothing for a leaf whose fetch fails, be it by an error
\* status, a response that does not decode or a request that cannot be
\* sent: the failure ends neither the walk nor the search.
C16_FailedFetchSwallowed ==
  [][(Len(log') > Len(log) /\ redis = EmptyDict)
       => LET call == log'[Len(log')]
              expected == Expected(call.region)
          IN /\ ~call.raised
             /\ call.fetched = expected.fetched
             /\ call.included = expected.included]_vars

\* C19: when the search of request r raises, the handler emits error to the
\* client exactly when r is still the active request of a connected
\* session, and nothing when r was superseded or the session disconnected.
C19_ErrorOnlyWhenActive ==
  [][\A s \in Sessions, r \in RequestIds :
       (hpc[s][r] = "searching" /\ hpc'[s][r] = "raised")
         => emitted'[s] =
              IF s \in connected /\ DictGet(active_requests, s, None) = r
              THEN Append(emitted[s], Event("error", r))
              ELSE emitted[s]]_vars

\* C19 witness: the search of a superseded request raised and nothing was
\* emitted for it; the search of the request that superseded it raised and
\* error was emitted
C19_Witness ==
  \E s \in Sessions :
    /\ hpc[s][1] = "raised" /\ hpc[s][2] = "raised"
    /\ emitted[s] = <<Event("error", 2)>>

\* places_complete and error end a request
Terminal(e) == e.name \in {"places_complete", "error"}

\* the terminal messages emitted for request r of session s
TerminalCount(s, r) ==
  Cardinality({k \in DOMAIN emitted[s] :
                 Terminal(emitted[s][k]) /\ emitted[s][k].rid = r})

\* C20: a request emits at most one terminal message; a terminal message
\* is emitted only for the request that is active at that moment, so a
\* superseded request emits none; and the search of the active request,
\* when it returns, emits exactly places_complete. Of two updates sent back
\* to back on one session only the second gets its places_complete.
C20_OneTerminalMessage ==
  /\ [](\A s \in Sessions, r \in RequestIds : TerminalCount(s, r) <= 1)
  /\ [][\A s \in Sessions :
          (Len(emitted'[s]) > Len(emitted[s])
             /\ Terminal(emitted'[s][Len(emitted'[s])]))
            => emitted'[s][Len(emitted'[s])].rid =
                 DictGet(active_requests', s, None)]_vars
  /\ [][\A s \in Sessions, r \in RequestIds :
          (/\ hpc[s][r] = "searching" /\ hpc'[s][r] = "returned"
           /\ DictGet(active_requests, s, None) = r)
            => emitted'[s] = Append(emitted[s], Event("places_complete", r))]_vars

\* C20 witness: two updates were sent back to back on one session, both
\* searches have returned, and the only terminal message of the session is
\* the places_complete of the second request
C20_Witness ==
  \E s \in Sessions :
    /\ hpc[s][1] = "returned" /\ hpc[s][2] = "returned"
    /\ TerminalCount(s, 1) = 0
    /\ {k \in DOMAIN emitted[s] : Terminal(emitted[s][k])}
         = {Len(emitted[s])}
    /\ emitted[s][Len(emitted[s])] = Event("places_complete", 2)

\* C21 as claimed: every region on_location_update hands to the search
\* engine has its latitude in [-90, 90], its longitude in [-180, 180] and
\* its radius in [0, 1000]: values out of range are clamped to the nearest
\* bound, values in range are kept.
C21_RegionInRange ==
  probe.fn = "on_location_update"
    => LET data == probe.input
           region == probe.output
       IN /\ region.latitude =
               clamp(DictGet(data, "latitude", DefaultLatitude), -90, 90)
          /\ region.longitude =
               clamp(DictGet(data, "longitude", DefaultLongitude), -180, 180)
          /\ region.radius =
               clamp(DictGet(data, "radius", DefaultRadius), 0, 1000)

\* C22: radius_to_level(r) ends and returns the largest level of 10..24
\* whose diameter is at least 2r: 24 when r <= 0, and 10 when no level has
\* such a diameter.
C22_LargestFittingLevel ==
  probe.fn = "radius_to_level"
    => LET r == probe.input
           L == probe.output
           Levels == MIN_S2_LEVEL..MAX_S2_LEVEL
           Fits(K) == LEVEL_TO_DIAMETER[K] >= 2 * r
       IN /\ L \in Levels
          /\ r <= 0 => L = MAX_S2_LEVEL
          /\ IF \E K \in Levels : Fits(K)
             THEN Fits(L) /\ \A K \in Levels : Fits(K) => K <= L
             ELSE L = MIN_S2_LEVEL

\* C22 witness: a radius of exactly half the diameter of level 17 was given
\* level 17
C22_Witness ==
  /\ probe.fn = "radius_to_level"
  /\ 2 * probe.input = LEVEL_TO_DIAMETER[17]
  /\ probe.output = 17

\* C23 as claimed: the cells a search walks are the centre cell alone when
\* the region stays inside the parent's bounds, and the centre cell followed
\* by its intersecting neighbours otherwise; the centre comes first and no
\* cell is walked, and so cached, twice in one search.
C23_CoveringWalkedOnce ==
  \A i \in 1..Len(log) :
    LET region == log[i].region
        centre == search_region_to_cell(region)
        walked == CoveringCells(region)
    IN ~log[i].raised
         => /\ walked[1] = centre
            /\ \A j \in 1..Len(walked) : \A k \in 1..Len(walked) :
                 j # k => walked[j].token # walked[k].token

\* C24: for every cell below level 24, get_children returns four cells with
\* strictly ascending (so pairwise distinct) ids, each one level deeper than
\* the cell and each with the cell as its parent.
C24_FourChildren ==
  (probe.fn = "get_children" /\ probe.input.level < MAX_S2_LEVEL)
    => LET cell == probe.input
           children == probe.output
       IN /\ Len(children) = 4
          /\ \A k \in 1..3 : children[k].id < children[k + 1].id
          /\ \A k \in 1..4 :
               /\ children[k].level = cell.level + 1
               /\ cell_id_to_parent_cell_id(children[k].id) = cell.id
               /\ get_parent(children[k]).id = cell.id

\* C24 witness: a cell of level 23 was split into cells of level 24
C24_Witness ==
  /\ probe.fn = "get_children"
  /\ probe.input.level = MAX_S2_LEVEL - 1
  /\ probe.output[4].level = MAX_S2_LEVEL
  /\ probe.output[1].id # probe.output[4].id

\* the places of an upstream response that carry both components, decoded
CompletePlaces(api_places) ==
  LET complete == SelectSeq(api_places,
                            LAMBDA p : AddressComponents \subseteq p.components)
  IN [k \in DOMAIN complete |-> decode_place(complete[k]).value]

RECURSIVE CompleteFrom(_, _)
\* the complete places around the leaves from leaf k on, leaf by leaf
CompleteFrom(leaves, k) ==
  IF k > Len(leaves) THEN <<>>
  ELSE CompletePlaces(send_request(leaves[k].latitude, leaves[k].longitude,
                                   LEVEL_TO_DIAMETER[leaves[k].level] \div 2))
         \o CompleteFrom(leaves, k + 1)

\* C25 as claimed: a fetch returns the places of the upstream response
\* that carry both a state and a zip code component; a place missing one
\* is dropped and the others of the same response are returned. Seen on a
\* search of an empty cache whose fetches all get a response: it gathers,
\* leaf by leaf, the complete places around each leaf.
C25_IncompletePlacesDropped ==
  [][(Len(log') > Len(log) /\ redis = EmptyDict
        /\ failing = {} /\ raising = {})
       => LET call == log'[Len(log')]
              leaves == LeavesOfAll(CoveringCells(call.region), 1)
          IN call.included = CompleteFrom(leaves, 1)]_vars

\* the places_update messages emitted for request r of session s
UpdateCount(s, r) ==
  Cardinality({k \in DOMAIN emitted[s] :
                 emitted[s][k] = Event("places_update", r)})

ActiveRequestId(s) == DictGet(active_requests, s, 0)

\* a location_update of session s is received in this step
LocationUpdateStep(s) ==
  \E r \in RequestIds :
    hpc'[s][r] # hpc[s][r] /\ hpc'[s][r] \in {"searching", "invalid"}

\* C28: while a session is connected its active request id is 0 before its
\* first request, every location_update raises it by exactly 1 to an id no
\* request of the session had, nothing else changes it, and a request that
\* was issued and is no longer the active one never becomes active again.
C28_RequestIdsIncrease ==
  /\ [](\A s \in connected :
          (\A r \in RequestIds : hpc[s][r] = "idle") => ActiveRequestId(s) = 0)
  /\ [][\A s \in Sessions :
          /\ (s \in connected /\ s \in connected')
               => /\ LocationUpdateStep(s)
                       => /\ ActiveRequestId(s)' = ActiveRequestId(s) + 1
                          /\ hpc[s][ActiveRequestId(s)'] = "idle"
                  /\ ~LocationUpdateStep(s)
                       => ActiveRequestId(s)' = ActiveRequestId(s)
          /\ \A r \in RequestIds :
               (hpc[s][r] # "idle" /\ should_cancel(s, r))
                 => should_cancel(s, r)']_vars

\* C28 witness: a connected session made two requests; the first is
\* still searching and is no longer the active one
C28_Witness ==
  \E s \in connected :
    /\ ActiveRequestId(s) = 2
    /\ hpc[s][1] = "searching" /\ hpc[s][2] = "searching"
    /\ should_cancel(s, 1)

\* C29 as claimed: the workers registered for a session were all spawned
\* for the request whose id is the session's active request id; a
\* superseded request never registers its workers.
C29_RegisteredAreCurrent ==
  \A s \in DOMAIN active_greenlets :
    \A w \in active_greenlets[s] :
      w[1] = s /\ w[2] = ActiveRequestId(s)

\* C30 as claimed: every place list in the cache was written with 12 hours
\* to live, on every path that writes one, and every lock was acquired with
\* 10 seconds to live.
C30_TtlsAsSpecified ==
  /\ cache # NoPayload => expiry.cache = 12 * 60 * 60
  /\ \A tok \in DOMAIN redis : redis[tok].ex = 12 * 60 * 60
  /\ lock # NoToken => expiry.lock = 10

DisconnectStep(s) == s \in connected /\ s \notin connected'

\* C32: a location_update or a disconnect of session x leaves, for every
\* other session y, the active request id and the registered workers as
\* they are, changes no worker of y, and changes the outcome of the
\* cancellation check of no request of y.
C32_SessionIsolation ==
  [][\A x \in Sessions : \A y \in Sessions \ {x} :
       (LocationUpdateStep(x) \/ DisconnectStep(x))
         => /\ (y \in DOMAIN active_requests') = (y \in DOMAIN active_requests)
            /\ ActiveRequestId(y)' = ActiveRequestId(y)
            /\ (y \in DOMAIN active_greenlets')
                 = (y \in DOMAIN active_greenlets)
            /\ Registered(y)' = Registered(y)
            /\ \A w \in DOMAIN greenlet : w[1] = y => greenlet'[w] = greenlet[w]
            /\ \A r \in RequestIds :
                 should_cancel(y, r)' = should_cancel(y, r)]_vars

\* C32 witness: one session has disconnected after a request while the
\* other is connected with its request still the active one and that
\* request's workers registered
C32_Witness ==
  \E x \in Sessions : \E y \in Sessions \ {x} :
    /\ x \in opened /\ x \notin connected /\ hpc[x][1] # "idle"
    /\ y \in connected /\ ActiveRequestId(y) = 1
    /\ hpc[y][1] = "returned" /\ Registered(y) # {}

\* what child adds to the list of its parent, from the store as the walk
\* of the parent finds it
ChildShare(client, region, child) ==
  LET loaded == load_places_from_cache(client, child)
  IN CASE loaded.kind = "ok" -> loaded.places
       [] loaded.kind = "miss" ->
            get_places_in_region_loop(client, region, child).places
       [] OTHER -> <<>>

\* the walk of cell, started on the store before and ended on the store
\* after with the list returned: every child that was a miss is stored with
\* the list its own walk returns, every child that was a hit keeps its
\* entry, and returned is the lists of the children in child order
WrittenThrough(before, after, region, cell, returned) ==
  LET children == get_children(cell)
      kind(k) == load_places_from_cache(before, children[k]).kind
  IN /\ \A k \in 1..4 :
          /\ kind(k) = "miss"
               => /\ children[k].token \in DOMAIN after
                  /\ after[children[k].token].valid
                  /\ after[children[k].token].places
                       = ChildShare(before, region, children[k])
          /\ kind(k) = "ok"
               => /\ children[k].token \in DOMAIN after
                  /\ after[children[k].token] = before[children[k].token]
     /\ returned = ChildShare(before, region, children[1])
                     \o ChildShare(before, region, children[2])
                     \o ChildShare(before, region, children[3])
                     \o ChildShare(before, region, children[4])

\* the search of this step walked one covering cell below
\* MAX_RECURSION_LEVEL, none of whose children holds bytes that do not
\* decode, and returned
WalkedBelowMax ==
  /\ Len(log') > Len(log)
  /\ ~log'[Len(log')].raised
  /\ LET cells == CoveringCells(log'[Len(log')].region)
     IN /\ Len(cells) = 1
        /\ cells[1].level < MAX_RECURSION_LEVEL
        /\ \A k \in 1..4 :
             load_places_from_cache(redis, get_children(cells[1])[k]).kind
               # "corrupted"

\* C33: when the walk of a cell below MAX_RECURSION_LEVEL returns, every
\* child that was a cache miss is stored with the list its own walk
\* returned, the children that hit are stored as before, and the list
\* returned is the lists of the children, cached or walked, in child order.
C33_WriteThroughOnMiss ==
  [][WalkedBelowMax
       => LET call == log'[Len(log')]
              cell == CoveringCells(call.region)[1]
          IN WrittenThrough(redis, redis', call.region, cell, call.included)]_vars

\* C33 witness: a walk below MAX_RECURSION_LEVEL found one child stored and
\* another one missing, and gathered places
C33_Witness ==
  \E i \in 2..Len(log) :
    LET cells == CoveringCells(log[i].region)
    IN /\ ~log[i].raised /\ Len(cells) = 1
       /\ cells[1].level < MAX_RECURSION_LEVEL
       /\ log[i].fetched # <<>>
       /\ Len(log[i].fetched) < 4
       /\ log[i].included # <<>>

\* C34 as claimed: within one search every leaf cell is fetched from
\* upstream at most once, whether the fetch succeeds or fails.
C34_LeafFetchedOnce ==
  \A i \in 1..Len(log) :
    \A j \in 1..Len(log[i].fetched) : \A k \in 1..Len(log[i].fetched) :
      j # k => log[i].fetched[j] # log[i].fetched[k]

\* C35: the walk of a covering cell of level L in 10..24 ends on every
\* store; it nests at most max(0, 16 - L) <= 6 calls deep, exactly that
\* deep on an empty store, and fetches at most 4^max(0, 16 - L) times
\* from upstream, exactly once when L >= 16.
C35_WalkBounded ==
  probe.fn = "get_places_in_region_loop"
    => LET L == probe.input.level
           below == IF L < 16 THEN 16 - L ELSE 0
       IN /\ below <= 6
          /\ probe.output.depth <= below
          /\ probe.input.stored = {} => probe.output.depth = below
          /\ probe.output.fetches <= 4^below
          /\ L >= 16 => probe.output.fetches = 1

\* C35 witness: the walk of a cell of level 10 on an empty store went 6
\* calls deep and fetched 4^6 leaves
C35_Witness ==
  /\ probe.fn = "get_places_in_region_loop"
  /\ probe.input.level = MIN_S2_LEVEL
  /\ probe.output.depth = 6
  /\ probe.output.fetches = 4096

\* rounds call c has spent waiting so far: the SET NX attempts of
\* acquire_lock that found the lock held plus the polls of the cache
Attempts(c) ==
  CASE cpc[c] = "acquire" -> waited[c]
    [] cpc[c] = "poll" ->
         (IF "lock_timeout" \in trail[c] THEN WaitRounds ELSE 0) + waited[c]
    [] OTHER -> 0

\* C36 as claimed: a call that finds the lock held gives up waiting after
\* at most wait_timeout / poll_interval rounds, lock attempts and cache
\* polls counted together.
C36_WaitsOneTimeout ==
  \A c \in Clients : Attempts(c) <= WaitRounds

\* C37 as claimed: for a cell below level 24 get_child_cell_ids returns 4
\* ids, each of the next level with the cell as its parent, the ids of
\* get_children; for a cell of level 24 it returns the empty list.
C37_ChildIdsAreChildren ==
  probe.fn = "get_child_cell_ids"
    => LET cell == probe.input
           ids == probe.output
       IN IF cell.level < MAX_S2_LEVEL
          THEN /\ Len(ids) = 4
               /\ \A i \in 1..4 :
                    /\ cell_id_to_level(ids[i]) = cell.level + 1
                    /\ cell_id_to_parent_cell_id(ids[i]) = cell.id
               /\ {ids[i] : i \in 1..4}
                    = {get_children(cell)[i].id : i \in 1..4}
          ELSE ids = <<>>

\* search i of the log reached the leaf under token tok as a child of a
\* coarser cell and its upstream fetch failed
FailedChildLeaf(i, tok) ==
  /\ tok \in failing \cup raising
  /\ radius_to_level(log[i].region.radius) < MAX_RECURSION_LEVEL
  /\ \E k \in 1..Len(log[i].fetched) : log[i].fetched[k] = tok

\* C38 as claimed: after a search in which the fetch for a child leaf
\* failed, the cache holds the empty list under the leaf's token, and no
\* later search within the TTL fetches that leaf from upstream.
C38_FailedLeafCachedEmpty ==
  \A i \in 1..Len(log) : \A tok \in failing \cup raising :
    FailedChildLeaf(i, tok) /\ log[i].pristine
      => /\ ~tampered
            => /\ tok \in DOMAIN redis
               /\ load_places_from_cache(redis, [token |-> tok])
                    = [kind |-> "ok", places |-> <<>>]
         /\ \A j \in (i + 1)..Len(log) :
              log[j].pristine
                => \A k \in 1..Len(log[j].fetched) : log[j].fetched[k] # tok

\* session s was connected and has disconnected
Disconnected(s) == s \in opened /\ s \notin connected

\* C39: once a session has disconnected the cancellation check of each of
\* its requests is true, and no step emits places_update, places_complete
\* or error for it, also when a search of the session is still running or
\* returns or raises later.
C39_SilentAfterDisconnect ==
  [][\A s \in Sessions :
       Disconnected(s)
         => /\ \A r \in RequestIds : should_cancel(s, r)
            /\ emitted'[s] = emitted[s]]_vars

\* C39 witness: a session disconnected while the search of its only
\* request was running; the workers' fetches returned and the search
\* returned after that, and nothing was emitted for the session
C39_Witness ==
  \E s \in Sessions :
    /\ Disconnected(s)
    /\ hpc[s][1] = "returned" /\ hpc[s][2] = "idle"
    /\ WorkersOf(s, 1) # {}
    /\ \A w \in WorkersOf(s, 1) :
         greenlet[w].st = "done" /\ greenlet[w].total >= 1
    /\ emitted[s] = <<>>

=============================================================================
